---- MODULE Spec2Model ----
(***************************************************************************)
(* ThumbScore AI: the HTTP handlers of main.py, the ThumbnailAnalyzer      *)
(* pipeline, and the ScorePredictor.                                       *)
(*                                                                         *)
(* Numbers.  Every score is an integer count of hundredths of a point      *)
(* (7530 is 75.30 points); a raw image metric r (a float the code later    *)
(* multiplies by 100) is the integer r * 10000, so that "r * 100" is the   *)
(* same integer read as a score.  Weighted sums are kept as exact          *)
(* numerators and divided once, where the code rounds.  Python's           *)
(* round(x, 1) is round-half-even on the decimal value; the binary         *)
(* representation error of a float is not modelled.                        *)
(***************************************************************************)
EXTENDS Integers, Sequences, FiniteSets, TLC

VARIABLES
    \* main.py: one request in flight and its response
    pc, request, response, analyzer_calls,
    \* ThumbnailAnalyzer: the process-wide usage state
    total_analyses, scores_history,
    \* ScorePredictor: the model held, and TRAINED / UNTRAINED
    model, is_trained,
    \* one call of a pipeline function: its arguments and its result
    call, ret

vars == <<pc, request, response, analyzer_calls, total_analyses, scores_history,
          model, is_trained, call, ret>>

server_vars == <<pc, request, response, analyzer_calls, total_analyses, scores_history>>

predictor_vars == <<model, is_trained>>

\* ------------------------------------------------------------------ bounds

\* most files in one /batch-analyze request
MaxBatch == 3

\* most analyses recorded in the usage state
MaxAnalyses == 3

\* the number of requests in flight at once
MaxRequests == 3

\* ------------------------------------------------------------- arithmetic

Min(a, b) == IF a < b THEN a ELSE b

Max(a, b) == IF a > b THEN a ELSE b

Abs(a) == IF a < 0 THEN 0 - a ELSE a

RECURSIVE SumSeq(_)
SumSeq(s) == IF s = <<>> THEN 0 ELSE Head(s) + SumSeq(Tail(s))

\* n / d rounded to the nearest integer, ties to the even one (d > 0)
RoundHalfEven(n, d) ==
    LET q == n \div d
        r == n % d
    IN  IF 2 * r < d THEN q
        ELSE IF 2 * r > d THEN q + 1
        ELSE IF q % 2 = 0 THEN q ELSE q + 1

\* ---------------------------------------------------------------- config

\* Settings.MAX_IMAGE_SIZE, in bytes
MAX_IMAGE_SIZE == 5242880

\* Settings.ALLOWED_IMAGE_TYPES; a MIME type "t/s" is the pair <<t, s>>
ALLOWED_IMAGE_TYPES == {<<"image", "jpeg">>, <<"image", "png">>, <<"image", "webp">>}

\* ------------------------------------------- ScorePredictor (score_predictor.py)

\* round(score, 1) of a score in hundredths
Round1(x) == RoundHalfEven(x, 10) * 10

\* the heuristic without its clamp to [50, 95]
calculate_heuristic_score_unclamped(h, jitter) ==
    IF h.raises THEN 7500
    ELSE LET brightness_score == 100 - Abs(h.brightness - 50) * 2
         IN  h.contrast * 25 + brightness_score * 20 + h.sharpness * 30
               + h.saturation * 25 + jitter

\* h: the image's metrics in percent (contrast = std(gray)/255 and so on), and
\* whether computing them raises; jitter: np.random.uniform(-5, 5), in hundredths
calculate_heuristic_score(h, jitter) ==
    IF h.raises THEN 7500
    ELSE LET brightness_score == 100 - Abs(h.brightness - 50) * 2
             score == h.contrast * 25 + brightness_score * 20 + h.sharpness * 30
                        + h.saturation * 25 + jitter
         IN  Max(5000, Min(9500, score))

\* predict_score with the mode test inverted
predict_score_inverted(mdl, trained, fwd, h, rnd) ==
    IF ~trained
    THEN IF fwd.raises
         THEN [score |-> calculate_heuristic_score(h, rnd.jitter), path |-> "heuristic",
               forward_called |-> TRUE]
         ELSE [score |-> Round1(Max(0, Min(10000, fwd.output))), path |-> "forward",
               forward_called |-> TRUE]
    ELSE [score |-> Round1(Max(0, Min(10000, calculate_heuristic_score(h, rnd.jitter)))),
          path |-> "heuristic", forward_called |-> FALSE]

\* fwd: what self.model.predict does: raises, or prediction[0][0] (times 10000).
\* The result is the score, the path that produced it, and whether the
\* forward pass was run.
predict_score(mdl, trained, fwd, h, rnd) ==
    IF mdl = "none"
    THEN [score |-> rnd.uniform, path |-> "random", forward_called |-> FALSE]
    ELSE IF trained
    THEN IF fwd.raises
         THEN [score |-> calculate_heuristic_score(h, rnd.jitter), path |-> "heuristic",
               forward_called |-> TRUE]
         ELSE [score |-> Round1(Max(0, Min(10000, fwd.output))), path |-> "forward",
               forward_called |-> TRUE]
    ELSE [score |-> Round1(Max(0, Min(10000, calculate_heuristic_score(h, rnd.jitter)))),
          path |-> "heuristic", forward_called |-> FALSE]

\* the constructor with is_trained set before the model is loaded
initialize_model_flag_first(path_exists, load_raises, create_base_raises) ==
    IF path_exists
    THEN IF load_raises
         THEN [model |-> "simple", is_trained |-> TRUE]
         ELSE [model |-> "loaded", is_trained |-> TRUE]
    ELSE IF create_base_raises
         THEN [model |-> "simple", is_trained |-> FALSE]
         ELSE [model |-> "base", is_trained |-> FALSE]

\* what the constructor leaves: a loaded model and TRAINED, or a fresh model
\* and UNTRAINED
initialize_model(path_exists, load_raises, create_base_raises) ==
    IF path_exists
    THEN IF load_raises
         THEN [model |-> "simple", is_trained |-> FALSE]
         ELSE [model |-> "loaded", is_trained |-> TRUE]
    ELSE IF create_base_raises
         THEN [model |-> "simple", is_trained |-> FALSE]
         ELSE [model |-> "base", is_trained |-> FALSE]

\* train_model with is_trained set before the fit
train_model_flag_first(trained, data, fit_raises) ==
    IF data # "complete"
    THEN [value |-> FALSE, is_trained |-> trained]
    ELSE IF fit_raises
    THEN [value |-> FALSE, is_trained |-> TRUE]
    ELSE [value |-> TRUE, is_trained |-> TRUE]

\* data: which keys the training data holds; the result is the boolean
\* returned and the mode after the call
train_model(trained, data, fit_raises) ==
    IF data # "complete"
    THEN [value |-> FALSE, is_trained |-> trained]
    ELSE IF fit_raises
    THEN [value |-> FALSE, is_trained |-> trained]
    ELSE [value |-> TRUE, is_trained |-> TRUE]

save_model(mdl, save_raises) ==
    IF mdl = "none" THEN FALSE
    ELSE IF save_raises THEN FALSE
    ELSE TRUE

\* --------------------------------------- ThumbnailAnalyzer (thumbnail_analyzer.py)

\* img: the raw metrics of the preprocessed image; harmony: the k-means result
analyze_basic_features(img, harmony) ==
    LET visual_impact == (img.contrast * 30 + img.saturation * 30 + img.clarity * 40) \div 100
    IN  [visual_impact |-> Min(visual_impact, 10000),
         clarity       |-> Min(img.clarity, 10000),
         contrast      |-> Min(img.contrast, 10000),
         color_harmony |-> harmony,
         brightness    |-> img.brightness,
         saturation    |-> img.saturation]

\* the four np.random.uniform draws of one call
analyze_contextual_features(rnd) ==
    [composition       |-> rnd.composition,
     text_readability  |-> rnd.text_readability,
     emotional_appeal  |-> rnd.emotional_appeal,
     brand_consistency |-> rnd.brand_consistency]

\* 100 * basic_avg
BasicAvg(basic) ==
    basic.visual_impact * 30 + basic.clarity * 25 + basic.contrast * 25
      + basic.color_harmony * 20

\* 100 * contextual_avg
ContextualAvg(contextual) ==
    contextual.composition * 40 + contextual.text_readability * 30
      + contextual.emotional_appeal * 30

\* 10000 * final_score before min and round
WeightedSum(basic, ml_score, contextual) ==
    BasicAvg(basic) * 40 + ml_score * 3500 + ContextualAvg(contextual) * 25

\* the fusion with a lower clamp at 0 added
calculate_final_score_floor0(basic, ml_score, contextual) ==
    RoundHalfEven(Max(0, Min(WeightedSum(basic, ml_score, contextual), 100000000)), 100000) * 10

calculate_final_score(basic, ml_score, contextual) ==
    RoundHalfEven(Min(WeightedSum(basic, ml_score, contextual), 100000000), 100000) * 10

MsgContrast == "Aumente o contraste para melhorar a legibilidade"

MsgClarity == "Use uma imagem mais nitida para melhor impacto visual"

MsgHarmony == "Considere usar uma paleta de cores mais harmoniosa"

MsgComposition == "Melhore a composicao seguindo a regra dos tercos"

MsgText == "Torne o texto mais legivel com melhor contraste ou tamanho"

MsgExcellent == "Excelente thumbnail! Pequenos ajustes podem torna-la ainda melhor"

MsgGood == "Boa thumbnail! Algumas melhorias podem aumentar o CTR"

MsgPoor == "Esta thumbnail precisa de melhorias significativas para melhor performance"

RuleMessages == <<MsgContrast, MsgClarity, MsgHarmony, MsgComposition, MsgText>>

ClosingRemarks == {MsgExcellent, MsgGood, MsgPoor}

\* the rules with the composition test chained to the harmony test by elif
generate_suggestions_elif(basic, contextual, final_score) ==
    (IF basic.contrast < 6000 THEN <<MsgContrast>> ELSE <<>>)
      \o (IF basic.clarity < 5000 THEN <<MsgClarity>> ELSE <<>>)
      \o (IF basic.color_harmony < 7000 THEN <<MsgHarmony>>
          ELSE IF contextual.composition < 7000 THEN <<MsgComposition>> ELSE <<>>)
      \o (IF contextual.text_readability < 7500 THEN <<MsgText>> ELSE <<>>)
      \o (IF final_score > 8500 THEN <<MsgExcellent>>
          ELSE IF final_score > 7000 THEN <<MsgGood>>
          ELSE <<MsgPoor>>)

generate_suggestions(basic, contextual, final_score) ==
    (IF basic.contrast < 6000 THEN <<MsgContrast>> ELSE <<>>)
      \o (IF basic.clarity < 5000 THEN <<MsgClarity>> ELSE <<>>)
      \o (IF basic.color_harmony < 7000 THEN <<MsgHarmony>> ELSE <<>>)
      \o (IF contextual.composition < 7000 THEN <<MsgComposition>> ELSE <<>>)
      \o (IF contextual.text_readability < 7500 THEN <<MsgText>> ELSE <<>>)
      \o (IF final_score > 8500 THEN <<MsgExcellent>>
          ELSE IF final_score > 7000 THEN <<MsgGood>>
          ELSE <<MsgPoor>>)

\* the average cut down instead of rounded
get_average_score_truncated(history) ==
    IF history = <<>> THEN 0
    ELSE (SumSeq(history) \div (Len(history) * 10)) * 10

get_average_score(history) ==
    IF history = <<>> THEN 0
    ELSE RoundHalfEven(SumSeq(history), Len(history) * 10) * 10

get_total_analyses(total) == total

\* ------------------------------------------------------ the inputs of a request

\* content types of an upload: an allowed image type, an image type that is
\* not allowed, and a type that is no image
ContentTypes == {<<"image", "png">>, <<"image", "gif">>, <<"text", "plain">>}

\* byte sizes of an upload: within the configured maximum, and beyond it
Sizes == {MAX_IMAGE_SIZE, MAX_IMAGE_SIZE + 1}

\* what the bytes of an upload do to the pipeline: analysed to the end, or the
\* step that raises on them (Image.open, ImageProcessor.preprocess, the cv2
\* calls of the feature analysis)
FailSteps == {"none", "decode", "preprocess", "features"}

Uploads == [content_type : ContentTypes, size : Sizes, fails_at : FailSteps]

WithName(u, name) ==
    [filename |-> name, content_type |-> u.content_type, size |-> u.size,
     fails_at |-> u.fails_at]

\* the files of a multipart request, named by their position
FileLists(n) == {[i \in 1..n |-> WithName(u[i], i)] : u \in [1..n -> Uploads]}

\* the raw metrics cv2 computes on the preprocessed test picture (times 10000)
ImageMetrics == [contrast |-> 10, saturation |-> 30, clarity |-> 10, brightness |-> 2000]

\* the metrics the heuristic computes on it (percent)
HeuristicMetrics ==
    [raises |-> FALSE, contrast |-> 30, brightness |-> 50, sharpness |-> 20, saturation |-> 60]

\* the random numbers one analysis consumes (k-means seeding, the contextual
\* placeholders, the jitter): the low and the high end of each range
RandomDraws ==
    {[color_harmony |-> 6500, composition |-> 6000, text_readability |-> 7000,
      emotional_appeal |-> 6500, brand_consistency |-> 7000, jitter |-> -500,
      uniform |-> 6000],
     [color_harmony |-> 9000, composition |-> 9500, text_readability |-> 9000,
      emotional_appeal |-> 8500, brand_consistency |-> 9000, jitter |-> 500,
      uniform |-> 9000]}

\* model.predict is not reached by an untrained predictor
NoForward == [raises |-> TRUE, output |-> 0]

NoRequest == [endpoint |-> "none", files |-> <<>>]

NoResponse == [status |-> 0]

NoCall == [fn |-> "none"]

NoReturn == [fn |-> "none"]

startswith_image(content_type) == content_type[1] = "image"

\* ---------------------------------------------------- ThumbnailAnalyzer.analyze

\* lines 37-69 of analyze: the steps after preprocessing, on a picture that
\* every step accepts, and the update of the statistics
run_pipeline(usage, file, rnd, mdl, trained) ==
    LET basic_analysis == analyze_basic_features(ImageMetrics, rnd.color_harmony)
        ml == predict_score(mdl, trained, NoForward, HeuristicMetrics, rnd)
        contextual_analysis == analyze_contextual_features(rnd)
        final_score == calculate_final_score(basic_analysis, ml.score, contextual_analysis)
        suggestions == generate_suggestions(basic_analysis, contextual_analysis, final_score)
    IN  [raised |-> FALSE,
         result |-> [score |-> final_score,
                     breakdown |->
                       [visual_impact |-> basic_analysis.visual_impact,
                        clarity |-> basic_analysis.clarity,
                        contrast |-> basic_analysis.contrast,
                        color_harmony |-> basic_analysis.color_harmony,
                        composition |-> contextual_analysis.composition,
                        text_readability |-> contextual_analysis.text_readability],
                     suggestions |-> suggestions,
                     filename |-> file.filename],
         usage  |-> [total |-> usage.total + 1,
                     history |-> Append(usage.history, final_score)]]

\* analyze, swallowing a failure and answering with an empty analysis
analyze_swallows(usage, file, rnd, mdl, trained) ==
    IF file.fails_at # "none"
    THEN [raised |-> FALSE,
          result |-> [score |-> 0, suggestions |-> <<>>, filename |-> file.filename],
          usage |-> usage]
    ELSE run_pipeline(usage, file, rnd, mdl, trained)

\* analyze with the counter incremented on entry
analyze_counts_first(usage, file, rnd, mdl, trained) ==
    IF file.fails_at # "none"
    THEN [raised |-> TRUE, error |-> file.fails_at,
          usage |-> [total |-> usage.total + 1, history |-> usage.history]]
    ELSE run_pipeline(usage, file, rnd, mdl, trained)

\* usage: the analyzer's total_analyses and scores_history before the call.
\* The result says whether the call raised (the except clause logs and
\* re-raises); if not, the analysis it returned; and the usage state after it.
analyze(usage, file, rnd, mdl, trained) ==
    IF file.fails_at = "decode"
    THEN [raised |-> TRUE, error |-> "decode", usage |-> usage]
    ELSE IF file.fails_at = "preprocess"
    THEN [raised |-> TRUE, error |-> "preprocess", usage |-> usage]
    ELSE IF file.fails_at = "features"
    THEN [raised |-> TRUE, error |-> "features", usage |-> usage]
    ELSE run_pipeline(usage, file, rnd, mdl, trained)

\* --------------------------------------------------------------- main.py

HTTPException(status_code, detail) == [status |-> status_code, detail |-> detail]

\* the handlers' "except Exception as e: raise HTTPException(500, ...)"; it
\* catches whatever the try body raised, an HTTPException included
except_Exception(e) == HTTPException(500, <<"Erro interno", e>>)

Usage == [total |-> total_analyses, history |-> scores_history]

\* a client posts one file to /analyze
PostAnalyze ==
    /\ pc = "idle"
    /\ total_analyses < MaxAnalyses
    /\ \E u \in Uploads :
         request' = [endpoint |-> "analyze", files |-> <<WithName(u, 1)>>]
    /\ pc' = "pending"
    /\ response' = NoResponse
    /\ analyzer_calls' = 0
    /\ UNCHANGED <<total_analyses, scores_history, predictor_vars, call, ret>>

\* a client posts a list of files to /batch-analyze
PostBatchAnalyze ==
    /\ pc = "idle"
    /\ \E n \in 1..Min(MaxBatch, MaxAnalyses - total_analyses) :
         \E files \in FileLists(n) :
           request' = [endpoint |-> "batch-analyze", files |-> files]
    /\ pc' = "pending"
    /\ response' = NoResponse
    /\ analyzer_calls' = 0
    /\ UNCHANGED <<total_analyses, scores_history, predictor_vars, call, ret>>

\* a client gets /metrics
GetMetrics ==
    /\ pc = "idle"
    /\ request' = [endpoint |-> "metrics", files |-> <<>>]
    /\ pc' = "pending"
    /\ response' = NoResponse
    /\ analyzer_calls' = 0
    /\ UNCHANGED <<total_analyses, scores_history, predictor_vars, call, ret>>

\* POST /analyze
analyze_thumbnail ==
    /\ pc = "pending"
    /\ request.endpoint = "analyze"
    /\ LET file == request.files[1]
       IN  IF ~startswith_image(file.content_type)
           THEN \* raise HTTPException(400) inside the try: caught by its except
                /\ response' = except_Exception(
                                  HTTPException(400, "Arquivo deve ser uma imagem"))
                /\ analyzer_calls' = 0
                /\ UNCHANGED <<total_analyses, scores_history>>
           ELSE \E rnd \in RandomDraws :
                  LET r == analyze(Usage, file, rnd, model, is_trained)
                  IN  /\ analyzer_calls' = 1
                      /\ total_analyses' = r.usage.total
                      /\ scores_history' = r.usage.history
                      /\ response' =
                           IF r.raised THEN except_Exception(r.error)
                           ELSE [status |-> 200, success |-> TRUE,
                                 filename |-> file.filename, analysis |-> r.result]
    /\ pc' = "done"
    /\ UNCHANGED <<request, predictor_vars, call, ret>>

\* the loop with "break" where the code has "continue"
RECURSIVE batch_loop_break(_, _, _, _, _, _)
batch_loop_break(files, rnds, i, usage, results, calls) ==
    IF i > Len(files)
    THEN [raised |-> FALSE, usage |-> usage, results |-> results, calls |-> calls]
    ELSE IF ~startswith_image(files[i].content_type)
    THEN [raised |-> FALSE, usage |-> usage, results |-> results, calls |-> calls]
    ELSE LET r == analyze(usage, files[i], rnds[i], model, is_trained)
         IN  IF r.raised
             THEN [raised |-> TRUE, error |-> r.error, usage |-> r.usage,
                   results |-> results, calls |-> calls + 1]
             ELSE batch_loop_break(files, rnds, i + 1, r.usage,
                                   Append(results, [filename |-> files[i].filename,
                                                    analysis |-> r.result]),
                                   calls + 1)

\* the loop of batch_analyze_thumbnails from file i on; rnds[i] are the random
\* numbers the analysis of file i consumes.  An exception leaves the loop.
RECURSIVE batch_loop(_, _, _, _, _, _)
batch_loop(files, rnds, i, usage, results, calls) ==
    IF i > Len(files)
    THEN [raised |-> FALSE, usage |-> usage, results |-> results, calls |-> calls]
    ELSE IF ~startswith_image(files[i].content_type)
    THEN batch_loop(files, rnds, i + 1, usage, results, calls)
    ELSE LET r == analyze(usage, files[i], rnds[i], model, is_trained)
         IN  IF r.raised
             THEN [raised |-> TRUE, error |-> r.error, usage |-> r.usage,
                   results |-> results, calls |-> calls + 1]
             ELSE batch_loop(files, rnds, i + 1, r.usage,
                             Append(results, [filename |-> files[i].filename,
                                              analysis |-> r.result]),
                             calls + 1)

\* the files whose analysis gets as far as consuming random numbers
DrawingFiles(files) ==
    {i \in 1..Len(files) :
       startswith_image(files[i].content_type) /\ files[i].fails_at = "none"}

\* POST /batch-analyze
batch_analyze_thumbnails ==
    /\ pc = "pending"
    /\ request.endpoint = "batch-analyze"
    /\ \E rnds \in [DrawingFiles(request.files) -> RandomDraws] :
         LET b == batch_loop(request.files, rnds, 1, Usage, <<>>, 0)
         IN  /\ analyzer_calls' = b.calls
             /\ total_analyses' = b.usage.total
             /\ scores_history' = b.usage.history
             /\ response' =
                  IF b.raised THEN except_Exception(b.error)
                  ELSE [status |-> 200, success |-> TRUE,
                        total_analyzed |-> Len(b.results), results |-> b.results]
    /\ pc' = "done"
    /\ UNCHANGED <<request, predictor_vars, call, ret>>

\* GET /metrics
get_metrics ==
    /\ pc = "pending"
    /\ request.endpoint = "metrics"
    /\ response' = [status |-> 200,
                    total_analyses |-> get_total_analyses(total_analyses),
                    average_score |-> get_average_score(scores_history),
                    api_version |-> "1.0.0"]
    /\ pc' = "done"
    /\ UNCHANGED <<request, analyzer_calls, total_analyses, scores_history,
                   predictor_vars, call, ret>>

\* the response is sent; the next request can be taken
Respond ==
    /\ pc = "done"
    /\ pc' = "idle"
    /\ request' = NoRequest
    /\ response' = NoResponse
    /\ analyzer_calls' = 0
    /\ UNCHANGED <<total_analyses, scores_history, predictor_vars, call, ret>>

\* thumbnail_analyzer = ThumbnailAnalyzer(): no model path, so a base model, untrained
Init ==
    /\ pc = "idle"
    /\ request = NoRequest
    /\ response = NoResponse
    /\ analyzer_calls = 0
    /\ total_analyses = 0
    /\ scores_history = <<>>
    /\ model = "base"
    /\ is_trained = FALSE
    /\ call = NoCall
    /\ ret = NoReturn

Next ==
    \/ PostAnalyze
    \/ PostBatchAnalyze
    \/ GetMetrics
    \/ analyze_thumbnail
    \/ batch_analyze_thumbnails
    \/ get_metrics
    \/ Respond

Spec == Init /\ [][Next]_vars

\* ------------------------------------------------------------------ claims

Handled(endpoint) == pc = "done" /\ request.endpoint = endpoint

IsImageEntry(f) == f.content_type[1] = "image"

\* C1: POST /analyze with an upload whose content type does not start with
\* "image/" is answered with a 4xx status, without the analyzer being called and
\* without a change of total_analyses or scores_history.
C1_NonImageIsClientError ==
    [][(pc = "pending" /\ request.endpoint = "analyze"
          /\ ~IsImageEntry(request.files[1]))
        => /\ response'.status \in 400..499
           /\ analyzer_calls' = 0
           /\ total_analyses' = total_analyses
           /\ scores_history' = scores_history]_vars

\* C2: in POST /batch-analyze a failing item is skipped and nothing else: the
\* response is a success whose results are the image items that analyse, and
\* total_analyzed is their number.
C2_BatchSkipsFailingItem ==
    Handled("batch-analyze") =>
      LET ok == {i \in 1..Len(request.files) :
                   IsImageEntry(request.files[i]) /\ request.files[i].fails_at = "none"}
      IN  /\ response.status = 200
          /\ response.total_analyzed = Cardinality(ok)
          /\ {response.results[k].filename : k \in 1..Len(response.results)} = ok

Completed == Len(scores_history') - Len(scores_history)

\* C4: total_analyses never decreases, grows by one with every analysis
\* that succeeds (whose score is appended to the history), and the
\* average_score of GET /metrics is the mean of the recorded scores to the
\* nearest tenth (0 when there is none).
C4_CountAndAverage ==
    [][/\ total_analyses' >= total_analyses
       /\ total_analyses' = total_analyses + Completed
       /\ (pc = "pending" /\ request.endpoint = "analyze" /\ response'.status = 200)
            => /\ total_analyses' = total_analyses + 1
               /\ scores_history' = Append(scores_history, response'.analysis.score)
       /\ (pc = "pending" /\ request.endpoint = "batch-analyze" /\ response'.status = 200)
            => total_analyses' = total_analyses + response'.total_analyzed
       /\ (pc = "pending" /\ request.endpoint = "metrics")
            => /\ response'.total_analyses = total_analyses
               /\ response'.average_score % 10 = 0
               /\ Abs(response'.average_score * Len(scores_history)
                        - SumSeq(scores_history)) <= 5 * Len(scores_history)]_vars

\* C4 witness: metrics served after three analyses with different scores
C4_Witness ==
    /\ Handled("metrics")
    /\ response.total_analyses = 3
    /\ Len(scores_history) = 3
    /\ scores_history[1] # scores_history[3]
    /\ response.average_score * 3 # SumSeq(scores_history)

\* C5: an upload larger than MAX_IMAGE_SIZE, or of a MIME type outside
\* ALLOWED_IMAGE_TYPES, is rejected before preprocessing: POST /analyze does
\* not answer it with an analysis, nor with an error of preprocessing or of a
\* later step.
C5_OversizeOrDisallowedRejected ==
    (/\ Handled("analyze")
     /\ \/ request.files[1].size > MAX_IMAGE_SIZE
        \/ request.files[1].content_type \notin ALLOWED_IMAGE_TYPES)
    => /\ response.status # 200
       /\ response.detail \notin {<<"Erro interno", "preprocess">>,
                                  <<"Erro interno", "features">>}

\* C10: a single-image analysis that fails in decoding, preprocessing or a
\* later step is answered by POST /analyze with status 500 and the message of
\* the failure, never with a success payload, and nothing is recorded.
C10_SingleFailureIs500 ==
    (/\ Handled("analyze")
     /\ IsImageEntry(request.files[1])
     /\ request.files[1].fails_at # "none")
    => /\ analyzer_calls = 1
       /\ response.status = 500
       /\ response.detail = <<"Erro interno", request.files[1].fails_at>>
       /\ "success" \notin DOMAIN response
       /\ "analysis" \notin DOMAIN response

\* C10 witness: an image whose preprocessing raises was posted and answered
C10_Witness ==
    /\ Handled("analyze")
    /\ IsImageEntry(request.files[1])
    /\ request.files[1].fails_at = "preprocess"
    /\ response.status = 500

\* ------------------------------------- ImageProcessor (image_processor.py)

\* int(side * scale) for scale = min(tw / width, th / height), in exact
\* arithmetic: the side that decides the scale comes out as the target's
FitWidth(width, height, tw, th) ==
    IF tw * height <= th * width THEN tw ELSE (width * th) \div height

FitHeight(width, height, tw, th) ==
    IF tw * height <= th * width THEN (height * tw) \div width ELSE th

\* size: <<width, height>> of the source; the result is the size of the new
\* canvas, the size of the resized content and where it is pasted
resize_with_padding(size, target_size) ==
    LET new_width == FitWidth(size[1], size[2], target_size[1], target_size[2])
        new_height == FitHeight(size[1], size[2], target_size[1], target_size[2])
    IN  [canvas |-> target_size, new_width |-> new_width, new_height |-> new_height,
         x |-> (target_size[1] - new_width) \div 2,
         y |-> (target_size[2] - new_height) \div 2]

\* ------------------------------------------- the pipeline functions, one call

\* arguments of _calculate_final_score: below 0, inside and above 100 points
BasicSamples == {-5000, 3335, 10000}

MlSamples == {-10000, 500, 7500, 15000}

ContextualSamples == {0, 7777, 12000}

FinalScoreCalls ==
    {[fn |-> "calculate_final_score", basic |-> b, ml_score |-> m, contextual |-> c] :
       b \in [visual_impact : BasicSamples, clarity : BasicSamples,
              contrast : BasicSamples, color_harmony : BasicSamples],
       m \in MlSamples,
       c \in [composition : ContextualSamples, text_readability : ContextualSamples,
              emotional_appeal : ContextualSamples]}

\* arguments of _generate_suggestions: each value just below and on its threshold
SuggestionCalls ==
    {[fn |-> "generate_suggestions", basic |-> b, contextual |-> c, final_score |-> f] :
       b \in [contrast : {5999, 6000}, clarity : {4999, 5000},
              color_harmony : {6999, 7000}],
       c \in [composition : {6999, 7000}, text_readability : {7499, 7500}],
       f \in {-120, 7000, 7010, 8500, 8510}}

\* arguments of _calculate_heuristic_score: the metrics in percent (sharpness
\* reaches sqrt(2)), the jitter in hundredths of a point
HeuristicInputs ==
    [raises : BOOLEAN, contrast : {0, 50}, brightness : {0, 50, 100},
     sharpness : {0, 70, 141}, saturation : {0, 100}]

Jitters == {-500, -1, 0, 500}

HeuristicCalls ==
    {[fn |-> "calculate_heuristic_score", h |-> h, jitter |-> j] :
       h \in HeuristicInputs, j \in Jitters}

call_calculate_final_score ==
    /\ call.fn = "calculate_final_score"
    /\ ret = NoReturn
    /\ ret' = [fn |-> call.fn,
               value |-> calculate_final_score(call.basic, call.ml_score, call.contextual)]
    /\ UNCHANGED <<server_vars, predictor_vars, call>>

call_generate_suggestions ==
    /\ call.fn = "generate_suggestions"
    /\ ret = NoReturn
    /\ ret' = [fn |-> call.fn,
               value |-> generate_suggestions(call.basic, call.contextual, call.final_score)]
    /\ UNCHANGED <<server_vars, predictor_vars, call>>

call_calculate_heuristic_score ==
    /\ call.fn = "calculate_heuristic_score"
    /\ ret = NoReturn
    /\ ret' = [fn |-> call.fn, value |-> calculate_heuristic_score(call.h, call.jitter)]
    /\ UNCHANGED <<server_vars, predictor_vars, call>>

\* sides of a source image: tiny, around the default target side, beyond it
SourceSides == {1, 2, 3, 5, 7, 100, 223, 224, 225, 640}

\* target sizes of an ImageProcessor: the default, a small square, two oblongs
TargetSizes == {<<224, 224>>, <<4, 4>>, <<3, 5>>, <<300, 200>>}

ResizeCalls ==
    {[fn |-> "resize_with_padding", size |-> <<w, h>>, target_size |-> t] :
       w \in SourceSides, h \in SourceSides, t \in TargetSizes}

call_resize_with_padding ==
    /\ call.fn = "resize_with_padding"
    /\ ret = NoReturn
    /\ ret' = [fn |-> call.fn, value |-> resize_with_padding(call.size, call.target_size)]
    /\ UNCHANGED <<server_vars, predictor_vars, call>>

\* raw metrics of a picture (x 10000): the standard deviation of the grey
\* levels is at most half the range, the Laplacian variance is not bounded by 1
RawContrasts == {0, 2500, 5000}

RawSaturations == {0, 5000, 10000}

RawClarities == {0, 4000, 10000, 20000, 30000}

Harmonies == {6000, 10000}

BasicFeatureCalls ==
    {[fn |-> "analyze_basic_features",
      image |-> [contrast |-> c, saturation |-> s, clarity |-> cl, brightness |-> 5000],
      color_harmony |-> h] :
       c \in RawContrasts, s \in RawSaturations, cl \in RawClarities, h \in Harmonies}

\* the basic analysis and the first weighted average of the fusion
call_analyze_basic_features ==
    /\ call.fn = "analyze_basic_features"
    /\ ret = NoReturn
    /\ LET basic == analyze_basic_features(call.image, call.color_harmony)
       IN  ret' = [fn |-> call.fn, basic |-> basic, basic_avg |-> BasicAvg(basic)]
    /\ UNCHANGED <<server_vars, predictor_vars, call>>

InitFunctions ==
    /\ pc = "idle"
    /\ request = NoRequest
    /\ response = NoResponse
    /\ analyzer_calls = 0
    /\ total_analyses = 0
    /\ scores_history = <<>>
    /\ model = "base"
    /\ is_trained = FALSE
    /\ call \in FinalScoreCalls \cup SuggestionCalls \cup HeuristicCalls
                \cup ResizeCalls \cup BasicFeatureCalls
    /\ ret = NoReturn

NextFunctions ==
    \/ call_calculate_final_score
    \/ call_generate_suggestions
    \/ call_calculate_heuristic_score
    \/ call_resize_with_padding
    \/ call_analyze_basic_features

SpecFunctions == InitFunctions /\ [][NextFunctions]_vars

\* C6: final_score is min(100, 0.4 basic_aggregate + 0.35 ml_score + 0.25
\* contextual_aggregate) to the nearest tenth: never above 100, and a sum
\* below 0 is returned as it is.
C6_FinalScoreFormula ==
    ret.fn = "calculate_final_score" =>
      LET b == call.basic
          c == call.contextual
          basic_aggregate == 30 * b.visual_impact + 25 * b.clarity + 25 * b.contrast
                               + 20 * b.color_harmony
          contextual_aggregate == 40 * c.composition + 30 * c.text_readability
                                    + 30 * c.emotional_appeal
          sum == 40 * basic_aggregate + 3500 * call.ml_score + 25 * contextual_aggregate
          capped == IF sum > 100000000 THEN 100000000 ELSE sum
      IN  /\ ret.value % 10 = 0
          /\ ret.value <= 10000
          /\ 2 * Abs(ret.value * 10000 - capped) <= 100000

\* C6 witness: a weighted sum below 0 came back negative
C6_Witness ==
    /\ ret.fn = "calculate_final_score"
    /\ call.ml_score < 0
    /\ ret.value < 0

RuleIndex(msg) == CHOOSE k \in 1..Len(RuleMessages) : RuleMessages[k] = msg

\* C7: the suggestion list holds the message of each rule whose threshold
\* test passes (contrast<60, clarity<50, color_harmony<70, composition<70,
\* text_readability<75), in that order and once each, and then one closing
\* remark chosen by final_score (>85, else >70, else the rest): 1 to 6 entries.
C7_SuggestionRules ==
    ret.fn = "generate_suggestions" =>
      LET s == ret.value
          n == Len(s)
          has(msg) == \E k \in 1..(n - 1) : s[k] = msg
      IN  /\ n \in 1..6
          /\ s[n] = (IF call.final_score > 8500 THEN MsgExcellent
                     ELSE IF call.final_score > 7000 THEN MsgGood
                     ELSE MsgPoor)
          /\ \A k \in 1..(n - 1) : s[k] \in {RuleMessages[j] : j \in 1..Len(RuleMessages)}
          /\ \A j, k \in 1..(n - 1) : j < k => RuleIndex(s[j]) < RuleIndex(s[k])
          /\ has(MsgContrast) <=> call.basic.contrast < 6000
          /\ has(MsgClarity) <=> call.basic.clarity < 5000
          /\ has(MsgHarmony) <=> call.basic.color_harmony < 7000
          /\ has(MsgComposition) <=> call.contextual.composition < 7000
          /\ has(MsgText) <=> call.contextual.text_readability < 7500

\* C7 witness: harmony and composition both below their thresholds, both reported
C7_Witness ==
    /\ ret.fn = "generate_suggestions"
    /\ call.basic.color_harmony < 7000
    /\ call.contextual.composition < 7000
    /\ Len(ret.value) = 6
    /\ ret.value[6] = MsgGood

\* C8: the heuristic predictor's result lies in [50, 95] for every input and
\* every jitter in [-5, +5], also when the computation fails and the default
\* is returned.
C8_HeuristicRange ==
    ret.fn = "calculate_heuristic_score" =>
      /\ ret.value >= 5000
      /\ ret.value <= 9500
      /\ call.h.raises => ret.value = 7500

\* C8 witness: metrics and jitter whose sum is above 95 points
C8_Witness ==
    /\ ret.fn = "calculate_heuristic_score"
    /\ ~call.h.raises
    /\ call.jitter = 500
    /\ calculate_heuristic_score_unclamped(call.h, call.jitter) > 9500
    /\ ret.value = 9500

\* C11: for every source size and target size the canvas has the target
\* size, and the resized content has a width and a height of at least 1, fits
\* inside the canvas and is centred: left and right padding differ by at most
\* one pixel, and so do top and bottom padding.
C11_LetterboxGeometry ==
    ret.fn = "resize_with_padding" =>
      LET v == ret.value
          tw == call.target_size[1]
          th == call.target_size[2]
          right == tw - v.new_width - v.x
          bottom == th - v.new_height - v.y
      IN  /\ v.canvas = call.target_size
          /\ v.new_width >= 1
          /\ v.new_height >= 1
          /\ v.new_width <= tw
          /\ v.new_height <= th
          /\ v.x >= 0
          /\ v.y >= 0
          /\ Abs(right - v.x) <= 1
          /\ Abs(bottom - v.y) <= 1

\* ------------------------------------------------- the predictor, call by call

\* what model.predict returns (prediction[0][0] times 10000: inside [0, 1],
\* on its ends, outside it), or that it raises
Forwards ==
    {[raises |-> TRUE, output |-> 0]}
      \cup [raises : {FALSE}, output : {-500, 0, 4325, 10000, 12000}]

\* the images predict_score is given: one whose heuristic raises, a dull one
\* and a vivid one
PredictImages ==
    {[raises |-> TRUE, contrast |-> 0, brightness |-> 0, sharpness |-> 0, saturation |-> 0],
     [raises |-> FALSE, contrast |-> 0, brightness |-> 0, sharpness |-> 0, saturation |-> 0],
     [raises |-> FALSE, contrast |-> 50, brightness |-> 50, sharpness |-> 141,
      saturation |-> 100],
     HeuristicMetrics}

TrainingData == {"complete", "no_images", "no_scores"}

call_predict_score ==
    /\ \E fwd \in Forwards, h \in PredictImages, rnd \in RandomDraws :
         LET p == predict_score(model, is_trained, fwd, h, rnd)
         IN  /\ call' = [fn |-> "predict_score", fwd |-> fwd, h |-> h, rnd |-> rnd]
             /\ ret' = [fn |-> "predict_score", raised |-> FALSE, value |-> p.score,
                        path |-> p.path, forward_called |-> p.forward_called]
    /\ UNCHANGED <<server_vars, predictor_vars>>

call_train_model ==
    /\ \E data \in TrainingData, fit_raises \in BOOLEAN :
         LET t == train_model(is_trained, data, fit_raises)
         IN  /\ call' = [fn |-> "train_model", data |-> data, fit_raises |-> fit_raises]
             /\ ret' = [fn |-> "train_model", raised |-> FALSE, value |-> t.value]
             /\ is_trained' = t.is_trained
    /\ UNCHANGED <<server_vars, model>>

call_save_model ==
    /\ \E save_raises \in BOOLEAN :
         /\ call' = [fn |-> "save_model", save_raises |-> save_raises]
         /\ ret' = [fn |-> "save_model", raised |-> FALSE,
                    value |-> save_model(model, save_raises)]
    /\ UNCHANGED <<server_vars, predictor_vars>>

\* ScorePredictor(model_path)
InitPredictor ==
    /\ pc = "idle"
    /\ request = NoRequest
    /\ response = NoResponse
    /\ analyzer_calls = 0
    /\ total_analyses = 0
    /\ scores_history = <<>>
    /\ \E path_exists \in BOOLEAN, load_raises \in BOOLEAN, create_base_raises \in BOOLEAN :
         LET m == initialize_model(path_exists, load_raises, create_base_raises)
         IN  /\ call = [fn |-> "__init__", path_exists |-> path_exists,
                        load_raises |-> load_raises,
                        create_base_raises |-> create_base_raises]
             /\ model = m.model
             /\ is_trained = m.is_trained
    /\ ret = [fn |-> "__init__", raised |-> FALSE]

NextPredictor ==
    \/ call_predict_score
    \/ call_train_model
    \/ call_save_model

SpecPredictor == InitPredictor /\ [][NextPredictor]_vars

\* C9: predict_score runs the model's forward pass if and only if the
\* predictor is TRAINED, and then returns its output times 100 (clamped,
\* rounded); UNTRAINED, or when the forward pass raises, it returns the
\* heuristic score; it never raises, and the score lies in [0, 100].
C9_PredictScore ==
    ret.fn = "predict_score" =>
      LET heuristic == calculate_heuristic_score(call.h, call.rnd.jitter)
      IN  /\ ~ret.raised
          /\ ret.forward_called <=> is_trained
          /\ (is_trained /\ ~call.fwd.raises)
               => /\ ret.path = "forward"
                  /\ Abs(ret.value - Max(0, Min(10000, call.fwd.output))) <= 5
          /\ (~is_trained \/ call.fwd.raises)
               => /\ ret.path = "heuristic"
                  /\ Abs(ret.value - heuristic) <= 5
          /\ ret.value >= 0
          /\ ret.value <= 10000

\* C9 witness: a TRAINED predictor whose forward pass raised answered with
\* the heuristic score
C9_Witness ==
    /\ ret.fn = "predict_score"
    /\ is_trained
    /\ call.fwd.raises
    /\ ret.path = "heuristic"
    /\ ret.value = calculate_heuristic_score(call.h, call.rnd.jitter)

\* C12: train_model never raises; with 'images' or 'scores' missing, or when
\* the fit fails, it returns False and leaves the mode as it was; when the fit
\* succeeds it returns True and the predictor is TRAINED.  No train, predict
\* or save call takes a TRAINED predictor back to UNTRAINED.
C12_TrainModel ==
    [][/\ is_trained => is_trained'
       /\ call'.fn = "train_model" =>
            /\ ~ret'.raised
            /\ (call'.data # "complete" \/ call'.fit_raises)
                 => (ret'.value = FALSE /\ is_trained' = is_trained)
            /\ (call'.data = "complete" /\ ~call'.fit_raises)
                 => (ret'.value = TRUE /\ is_trained')
       /\ call'.fn \in {"predict_score", "save_model"} => is_trained' = is_trained]_vars

\* C12 witness: the fit failed on complete data and the predictor is still UNTRAINED
C12_Witness ==
    /\ ret.fn = "train_model"
    /\ call.data = "complete"
    /\ call.fit_raises
    /\ ret.value = FALSE
    /\ ~is_trained

\* C13: after construction the predictor holds a model; without a model file,
\* or when loading it raises, that model is freshly built and the mode is
\* UNTRAINED; the mode is TRAINED only if a persisted model was loaded.
C13_ConstructorFallback ==
    call.fn = "__init__" =>
      /\ ~ret.raised
      /\ model # "none"
      /\ (~call.path_exists \/ call.load_raises)
           => (model \in {"base", "simple"} /\ ~is_trained)
      /\ is_trained <=> (call.path_exists /\ ~call.load_raises)
      /\ is_trained => model = "loaded"

\* C13 witness: a model file exists, loading it raised
C13_Witness ==
    /\ call.fn = "__init__"
    /\ call.path_exists
    /\ call.load_raises
    /\ model = "simple"
    /\ ~is_trained

C15_UsageConsistent ==
    [][/\ total_analyses = Len(scores_history)
       /\ total_analyses' = Len(scores_history')
       /\ (pc = "pending" /\ request.endpoint = "analyze" /\ response'.status # 200)
            => (total_analyses' = total_analyses /\ scores_history' = scores_history)
       /\ (pc = "pending" /\ request.endpoint = "batch-analyze" /\ response'.status # 200)
            => /\ analyzer_calls' >= 1
               /\ total_analyses' = total_analyses + analyzer_calls' - 1
               /\ Len(scores_history') = Len(scores_history) + analyzer_calls' - 1
               /\ SubSeq(scores_history', 1, Len(scores_history)) = scores_history]_vars

\* C15 witness: a batch aborted on its second analysis; the first one is counted
C15_Witness ==
    /\ pc = "done"
    /\ request.endpoint = "batch-analyze"
    /\ response.status = 500
    /\ analyzer_calls = 2
    /\ total_analyses = 1
    /\ Len(scores_history) = 1

\* ------------------------------------ concurrent requests on the event loop

Requests == 1..MaxRequests

\* the uploads of the concurrent requests: a picture that is analysed, pictures
\* that fail at each step, and a file that is not a picture
ConcurrentUploads ==
    {u \in Uploads :
       /\ u.size = MAX_IMAGE_SIZE
       /\ u.content_type \in {<<"image", "png">>, <<"text", "plain">>}
       /\ (~startswith_image(u.content_type) => u.fails_at = "none")}

Frame(rnd) == [fn |-> "analyze", rnd |-> rnd]

\* POST /analyze of request r up to "await file.read()"
analyze_thumbnail_until_read(r) ==
    /\ pc[r] = "start"
    /\ \E u \in ConcurrentUploads :
         LET file == WithName(u, r)
         IN  /\ request' = [request EXCEPT ![r] =
                              [endpoint |-> "analyze", files |-> <<file>>]]
             /\ IF ~startswith_image(file.content_type)
                THEN /\ response' = [response EXCEPT ![r] = except_Exception(
                                        HTTPException(400, "Arquivo deve ser uma imagem"))]
                     /\ pc' = [pc EXCEPT ![r] = "done"]
                ELSE /\ response' = response
                     /\ pc' = [pc EXCEPT ![r] = "read"]
    /\ UNCHANGED <<analyzer_calls, total_analyses, scores_history, predictor_vars,
                   call, ret>>

\* from the file's bytes to "await self.score_predictor.predict_score(...)":
\* decoding, preprocessing and the basic analysis
analyze_until_predict(r) ==
    /\ pc[r] = "read"
    /\ LET file == request[r].files[1]
       IN  IF file.fails_at # "none"
           THEN /\ response' = [response EXCEPT ![r] = except_Exception(file.fails_at)]
                /\ pc' = [pc EXCEPT ![r] = "done"]
                /\ call' = call
           ELSE /\ \E rnd \in RandomDraws : call' = [call EXCEPT ![r] = Frame(rnd)]
                /\ pc' = [pc EXCEPT ![r] = "predict"]
                /\ response' = response
    /\ UNCHANGED <<request, analyzer_calls, total_analyses, scores_history,
                   predictor_vars, ret>>

\* from the predicted score to "await self._analyze_contextual_features(...)"
analyze_until_contextual(r) ==
    /\ pc[r] = "predict"
    /\ pc' = [pc EXCEPT ![r] = "contextual"]
    /\ UNCHANGED <<request, response, analyzer_calls, total_analyses, scores_history,
                   predictor_vars, call, ret>>

\* the rest of analyze with the statistics update cut in two by a suspension
analyze_finish_split(r) ==
    /\ pc[r] = "contextual"
    /\ LET a == run_pipeline(Usage, request[r].files[1], call[r].rnd, model, is_trained)
       IN  /\ total_analyses' = a.usage.total
           /\ scores_history' = scores_history
           /\ response' = [response EXCEPT ![r] =
                             [status |-> 200, success |-> TRUE,
                              filename |-> a.result.filename, analysis |-> a.result]]
    /\ pc' = [pc EXCEPT ![r] = "done"]
    /\ UNCHANGED <<request, analyzer_calls, predictor_vars, call, ret>>

\* the rest of analyze and of the handler: the fusion, the suggestions, the
\* increment and the append with no await between them, and the response
analyze_finish(r) ==
    /\ pc[r] = "contextual"
    /\ LET a == run_pipeline(Usage, request[r].files[1], call[r].rnd, model, is_trained)
       IN  /\ total_analyses' = a.usage.total
           /\ scores_history' = a.usage.history
           /\ response' = [response EXCEPT ![r] =
                             [status |-> 200, success |-> TRUE,
                              filename |-> a.result.filename, analysis |-> a.result]]
    /\ pc' = [pc EXCEPT ![r] = "done"]
    /\ UNCHANGED <<request, analyzer_calls, predictor_vars, call, ret>>

\* GET /metrics served between two steps of the analyses; it has no await
get_metrics_concurrent ==
    /\ ret' = [fn |-> "get_metrics",
               total_analyses |-> get_total_analyses(total_analyses),
               average_score |-> get_average_score(scores_history),
               recorded |-> Len(scores_history)]
    /\ UNCHANGED <<pc, request, response, analyzer_calls, total_analyses,
                   scores_history, predictor_vars, call>>

InitConcurrent ==
    /\ pc = [r \in Requests |-> "start"]
    /\ request = [r \in Requests |-> NoRequest]
    /\ response = [r \in Requests |-> NoResponse]
    /\ analyzer_calls = 0
    /\ total_analyses = 0
    /\ scores_history = <<>>
    /\ model = "base"
    /\ is_trained = FALSE
    /\ call = [r \in Requests |-> NoCall]
    /\ ret = NoReturn

NextConcurrent ==
    \/ \E r \in Requests : analyze_thumbnail_until_read(r)
    \/ \E r \in Requests : analyze_until_predict(r)
    \/ \E r \in Requests : analyze_until_contextual(r)
    \/ \E r \in Requests : analyze_finish(r)
    \/ get_metrics_concurrent

SpecConcurrent == InitConcurrent /\ [][NextConcurrent]_vars

Succeeded == {r \in Requests : pc[r] = "done" /\ response[r].status = 200}

\* C16: with the analyses interleaved at their await points no usage update
\* is lost: total_analyses is the length of scores_history in every state, so
\* in every answer of a concurrent GET /metrics, it is the number of requests
\* that have succeeded so far, and once every request is done it is the number
\* of requests that succeeded.
C16_NoLostUpdate ==
    /\ total_analyses = Len(scores_history)
    /\ total_analyses = Cardinality(Succeeded)
    /\ ret.fn = "get_metrics" => ret.total_analyses = ret.recorded
    /\ (\A r \in Requests : pc[r] = "done")
         => total_analyses = Cardinality({r \in Requests : response[r].status = 200})

\* C16 witness: every request is done, at least two analyses succeeded, and a
\* GET /metrics was answered when only one of them had completed
C16_Witness ==
    /\ Cardinality(Succeeded) >= 2
    /\ total_analyses = Cardinality(Succeeded)
    /\ ret.fn = "get_metrics"
    /\ ret.total_analyses = 1
    /\ \A r \in Requests : pc[r] = "done"

====
